---- MODULE Spec2Model ----
(***************************************************************************)
(* examples/server/openai_server.py: a FastAPI application that wires      *)
(* HTTP requests to one process-wide GenerationExecutor.                    *)
(*                                                                         *)
(* Text is modelled two ways.  Prompts are TLA+ strings, built with \o as  *)
(* the code builds them with += .  Generated text is a sequence of         *)
(* characters (one-character strings, NUL for the byte 0), because         *)
(* json.dumps and the NUL framing work on characters.                      *)
(***************************************************************************)
EXTENDS Integers, Sequences, FiniteSets, TLC

VARIABLES
    env,        \* what the process is started against: clients, engine vocabulary, conversations
    executor,   \* the module-level name `executor` (line 17)
    engines,    \* every GenerationExecutor instance constructed so far
    serving,    \* uvicorn.Server(config).serve() has been entered
    request,    \* per client: the HTTP request it sent, or NoRequest
    pc,         \* per client: where its handler coroutine stands
    promise,    \* per client: the handler's local `promise` (a handle id, 0 = unbound)
    handles,    \* the engine's generation handles, in creation order
    response,   \* per client: what has been sent back (status line and JSON/plain body)
    chunks,     \* per client: the chunks a StreamingResponse has written
    origin,     \* per client: (handle, index) of every fragment that reached its response
    connected   \* per client: the connection is still open on the client side

vars == <<env, executor, engines, serving, request, pc, promise, handles,
          response, chunks, origin, connected>>

----------------------------------------------------------------------------
(* Bounds *)

MaxReqs == 2        \* concurrent clients
MaxFrags == 2       \* largest max_new_tokens a client asks for
MaxFragLen == 1     \* characters in one fragment (framing scope)
MaxMsgs == 2        \* messages in one conversation (chat scope)

Clients == 1..MaxReqs

----------------------------------------------------------------------------
(* Characters and JSON string encoding *)

NUL == "NUL"
QUOTE == "\""
BSLASH == "\\"

Chars == {"a", QUOTE, BSLASH, NUL}

RECURSIVE SeqsUpTo(_, _)
SeqsUpTo(S, n) ==
    IF n = 0 THEN {<<>>}
    ELSE LET shorter == SeqsUpTo(S, n - 1)
         IN  shorter \cup {Append(s, c) : s \in {t \in shorter : Len(t) = n - 1}, c \in S}

\* hand-rolled quoting that leaves control characters as they are
EscapeChar_raw(c) ==
    IF c = QUOTE THEN <<BSLASH, QUOTE>>
    ELSE IF c = BSLASH THEN <<BSLASH, BSLASH>>
    ELSE <<c>>

\* json.dumps on one character of a str (ensure_ascii=True)
EscapeChar(c) ==
    IF c = QUOTE THEN <<BSLASH, QUOTE>>
    ELSE IF c = BSLASH THEN <<BSLASH, BSLASH>>
    ELSE IF c = NUL THEN <<BSLASH, "u", "0", "0", "0", "0">>
    ELSE <<c>>

RECURSIVE EscapeAll(_)
EscapeAll(s) == IF s = <<>> THEN <<>> ELSE EscapeChar(Head(s)) \o EscapeAll(Tail(s))

\* json.dumps(output.text)
dumps(text) == <<QUOTE>> \o EscapeAll(text) \o <<QUOTE>>

\* (json.dumps(output.text) + "\0").encode("utf-8")
Frame(text) == dumps(text) \o <<NUL>>

RECURSIVE Flatten(_)
Flatten(ss) == IF ss = <<>> THEN <<>> ELSE Head(ss) \o Flatten(Tail(ss))

----------------------------------------------------------------------------
(* What a client does with the stream: split on NUL, json.loads each piece *)

Malformed == <<"malformed">>

RECURSIVE SplitNul(_, _)
\* the pieces of `bytes` that end in NUL; `cur` is the piece being read
SplitNul(bytes, cur) ==
    IF bytes = <<>> THEN (IF cur = <<>> THEN <<>> ELSE <<Malformed>>)
    ELSE IF Head(bytes) = NUL THEN <<cur>> \o SplitNul(Tail(bytes), <<>>)
    ELSE SplitNul(Tail(bytes), Append(cur, Head(bytes)))

RECURSIVE Unescape(_)
\* the inside of a JSON string literal, escapes resolved
Unescape(s) ==
    IF s = <<>> THEN <<>>
    ELSE IF Head(s) = BSLASH THEN
        IF Len(s) >= 2 /\ s[2] \in {QUOTE, BSLASH}
            THEN <<s[2]>> \o Unescape(SubSeq(s, 3, Len(s)))
        ELSE IF Len(s) >= 6 /\ SubSeq(s, 2, 6) = <<"u", "0", "0", "0", "0">>
            THEN <<NUL>> \o Unescape(SubSeq(s, 7, Len(s)))
        ELSE Malformed
    ELSE IF Head(s) = QUOTE THEN Malformed
    ELSE <<Head(s)>> \o Unescape(Tail(s))

loads(piece) ==
    IF Len(piece) >= 2 /\ piece[1] = QUOTE /\ piece[Len(piece)] = QUOTE
    THEN Unescape(SubSeq(piece, 2, Len(piece) - 1))
    ELSE Malformed

ClientDecode(bytes) ==
    LET pieces == SplitNul(bytes, <<>>)
    IN  [i \in 1..Len(pieces) |-> loads(pieces[i])]

----------------------------------------------------------------------------
(* Requests *)

None == 0
NoRequest == [path |-> "none"]
NoResponse == [status |-> 0, kind |-> "none"]

Roles == {"user", "assistant", "system"}
Contents == {"Hi", "Hello"}
Messages == [role : Roles, content : Contents]

\* dict.pop(key, default) as used on request_dict: the value read
pop(d, key, default) == IF key \in DOMAIN d THEN d[key] ELSE default

GenerateBodies(budgets) ==
    {[prompt |-> "p", max_new_tokens |-> n] : n \in budgets}
    \cup {[prompt |-> "p", max_new_tokens |-> n, streaming |-> s] : n \in budgets, s \in BOOLEAN}
    \cup {[prompt |-> "p", max_new_tokens |-> n, streaming |-> s, temperature |-> 7] :
            n \in budgets, s \in BOOLEAN}
    \cup {[max_new_tokens |-> n] : n \in budgets}
    \cup {[prompt |-> "p"], [prompt |-> "p", streaming |-> TRUE]}

ChatBodies(chats, budgets) ==
    {[messages |-> m, max_tokens |-> n] : m \in chats, n \in budgets}
    \cup {[messages |-> m, max_tokens |-> n, streaming |-> s] :
            m \in chats, n \in budgets, s \in BOOLEAN}
    \cup {[messages |-> m] : m \in chats}
    \cup {[max_tokens |-> n, streaming |-> TRUE] : n \in budgets}
    \cup {[streaming |-> TRUE]}

GetRequests == {[path |-> p] : p \in {"/stats", "/health", "/v1/models"}}

GenerateRequests(budgets) == {[path |-> "/generate", body |-> b] : b \in GenerateBodies(budgets)}

ChatRequests(chats, budgets) ==
    {[path |-> "/v1/chat/completions", body |-> b] : b \in ChatBodies(chats, budgets)}

OneChat == {<<[role |-> "user", content |-> "Hi"]>>}

----------------------------------------------------------------------------
(* The environments the specifications start in: who connects, which      *)
(* fragments the engine can emit, which requests the clients send.         *)

\* concurrent clients, one request of each kind
ServerEnv ==
    [clients |-> Clients,
     vocab |-> {<<"a">>},
     requests |->
        GetRequests
        \cup {[path |-> "/generate", body |-> b] :
                b \in {[prompt |-> "p", max_new_tokens |-> 1, streaming |-> TRUE],
                       [prompt |-> "p", max_new_tokens |-> 2, temperature |-> 7],
                       [max_new_tokens |-> 1]}}
        \cup {[path |-> "/v1/chat/completions", body |-> b] :
                b \in {[messages |-> <<[role |-> "user", content |-> "Hi"]>>,
                        max_tokens |-> 1],
                       [messages |-> <<[role |-> "user", content |-> "Hi"]>>,
                        max_tokens |-> 1, streaming |-> TRUE]}}]

\* one client, every /generate body, every fragment text over Chars
FramingEnv ==
    [clients |-> {1},
     vocab |-> SeqsUpTo(Chars, MaxFragLen),
     requests |-> GetRequests \cup GenerateRequests(1..MaxFrags)
                    \cup ChatRequests(OneChat, {1})]

\* one client streaming from a small engine
DisconnectEnv ==
    [clients |-> {1},
     vocab |-> {<<"a">>},
     requests |-> GetRequests \cup GenerateRequests(1..MaxFrags)
                    \cup ChatRequests(OneChat, {1})]

\* one client, every conversation over Messages
ChatEnv ==
    [clients |-> {1},
     vocab |-> {<<"a">>},
     requests |-> GetRequests \cup GenerateRequests({1})
                    \cup ChatRequests(SeqsUpTo(Messages, MaxMsgs), {1})]

----------------------------------------------------------------------------
(* Startup *)

Init0(e) ==
    /\ env = e
    /\ executor = None
    /\ engines = {}
    /\ serving = FALSE
    /\ request = [r \in Clients |-> NoRequest]
    /\ pc = [r \in Clients |-> "idle"]
    /\ promise = [r \in Clients |-> None]
    /\ handles = <<>>
    /\ response = [r \in Clients |-> NoResponse]
    /\ chunks = [r \in Clients |-> <<>>]
    /\ origin = [r \in Clients |-> <<>>]
    /\ connected = [r \in Clients |-> FALSE]

Init == Init0(ServerEnv)
InitFraming == Init0(FramingEnv)
InitChat == Init0(ChatEnv)
InitDisconnect == Init0(DisconnectEnv)

\* main(): executor = GenerationExecutor(...), then uvicorn.Server(config).serve()
main ==
    /\ ~serving
    /\ executor' = Cardinality(engines) + 1
    /\ engines' = engines \cup {Cardinality(engines) + 1}
    /\ serving' = TRUE
    /\ UNCHANGED <<env, request, pc, promise, handles, response, chunks, origin, connected>>

\* a client connects and sends one request; the router starts the handler
Receive(r) ==
    /\ serving
    /\ r \in env.clients
    /\ pc[r] = "idle"
    /\ \E req \in env.requests : request' = [request EXCEPT ![r] = req]
    /\ pc' = [pc EXCEPT ![r] = "handler"]
    /\ connected' = [connected EXCEPT ![r] = TRUE]
    /\ UNCHANGED <<env, executor, engines, serving, promise, handles, response, chunks, origin>>

----------------------------------------------------------------------------
(* What the HTTP layer sends *)

JSONResponse(content) == [status |-> 200, kind |-> "json", json |-> content]

\* an exception that leaves a handler before any response was started
InternalServerError == [status |-> 500, kind |-> "plain", text |-> "Internal Server Error"]

Return(r, resp) ==
    /\ response' = [response EXCEPT ![r] = resp]
    /\ pc' = [pc EXCEPT ![r] = "done"]

Raise(r) ==
    /\ response' = [response EXCEPT ![r] = InternalServerError]
    /\ pc' = [pc EXCEPT ![r] = "raised"]

----------------------------------------------------------------------------
(* The engine: GenerationExecutor and its handles *)

Truthy(v) == v = TRUE

\* executor.generate_async(prompt=..., max_new_tokens=..., streaming=...): the new handle.
\* `sampling` is the set of (key, value) pairs the call carries besides those three.
generate_async(r, prompt, max_new_tokens, streaming, sampling) ==
    [by |-> r, prompt |-> prompt, max_new_tokens |-> max_new_tokens,
     streaming |-> streaming, sampling |-> sampling,
     out |-> <<>>, state |-> "running", read |-> 0]

HandleIds == 1..Len(handles)

\* the engine produces the next fragment of a generation
EngineEmit(h) ==
    /\ h \in HandleIds
    /\ handles[h].state = "running"
    /\ Len(handles[h].out) < handles[h].max_new_tokens
    /\ \E t \in env.vocab :
         handles' = [handles EXCEPT ![h].out = Append(@, t)]
    /\ UNCHANGED <<env, executor, engines, serving, request, pc, promise,
                   response, chunks, origin, connected>>

\* stop condition or token budget reached
EngineFinish(h) ==
    /\ h \in HandleIds
    /\ handles[h].state = "running"
    /\ handles' = [handles EXCEPT ![h].state = "done"]
    /\ UNCHANGED <<env, executor, engines, serving, request, pc, promise,
                   response, chunks, origin, connected>>

\* the generation fails inside the engine
EngineFail(h) ==
    /\ h \in HandleIds
    /\ handles[h].state = "running"
    /\ handles' = [handles EXCEPT ![h].state = "failed"]
    /\ UNCHANGED <<env, executor, engines, serving, request, pc, promise,
                   response, chunks, origin, connected>>

\* promise.text once the generation is complete
HandleText(h) == Flatten(handles[h].out)

AllOf(h) == [i \in 1..Len(handles[h].out) |-> <<h, i>>]

----------------------------------------------------------------------------
(* GET handlers *)

\* @app.get("/stats")
stats(r) ==
    /\ pc[r] = "handler"
    /\ request[r].path = "/stats"
    /\ IF executor = None
       THEN Raise(r)
       ELSE Return(r, JSONResponse([engine |-> executor]))
    /\ UNCHANGED <<env, executor, engines, serving, request, promise, handles,
                   chunks, origin, connected>>

\* a health check that rebuilds the engine
health_reload(r) ==
    /\ pc[r] = "handler"
    /\ request[r].path = "/health"
    /\ executor' = Cardinality(engines) + 1
    /\ engines' = engines \cup {Cardinality(engines) + 1}
    /\ Return(r, [status |-> 200, kind |-> "empty"])
    /\ UNCHANGED <<env, serving, request, promise, handles, chunks, origin, connected>>

\* @app.get("/health")
health(r) ==
    /\ pc[r] = "handler"
    /\ request[r].path = "/health"
    /\ Return(r, [status |-> 200, kind |-> "empty"])
    /\ UNCHANGED <<env, executor, engines, serving, request, promise, handles,
                   chunks, origin, connected>>

\* @app.get("/v1/models")
show_available_models(r) ==
    /\ pc[r] = "handler"
    /\ request[r].path = "/v1/models"
    /\ Return(r, JSONResponse(
            [object |-> "list",
             data |-> <<[id |-> "default", object |-> "model",
                         created |-> 1686935002, owned_by |-> "TensorRT-LLM"]>>]))
    /\ UNCHANGED <<env, executor, engines, serving, request, promise, handles,
                   chunks, origin, connected>>

----------------------------------------------------------------------------
(* POST /generate *)

\* `promise` kept in a module-level name, rebound by every request
MyPromise_global(r) == Len(handles)

\* the handle a handler reads: its own local variable `promise`
MyPromise(r) == promise[r]

\* lines 42-54: parse, start the generation, and pick the response mode
generate(r) ==
    /\ pc[r] = "handler"
    /\ request[r].path = "/generate"
    /\ LET request_dict == request[r].body
           streaming == pop(request_dict, "streaming", FALSE)
       IN  IF executor = None
              \/ "prompt" \notin DOMAIN request_dict
              \/ "max_new_tokens" \notin DOMAIN request_dict
           THEN /\ Raise(r)
                /\ UNCHANGED <<promise, handles>>
           ELSE \/ /\ Raise(r)      \* generate_async raises
                   /\ UNCHANGED <<promise, handles>>
                \/ /\ handles' = Append(handles,
                          generate_async(r, request_dict.prompt,
                                         request_dict.max_new_tokens, streaming, {}))
                   /\ promise' = [promise EXCEPT ![r] = Len(handles) + 1]
                   /\ IF Truthy(streaming)
                      THEN /\ response' = [response EXCEPT ![r] =
                                  [status |-> 200, kind |-> "stream", complete |-> FALSE]]
                           /\ pc' = [pc EXCEPT ![r] = "streaming"]
                      ELSE /\ pc' = [pc EXCEPT ![r] = "await_completion"]
                           /\ UNCHANGED response
    /\ UNCHANGED <<env, executor, engines, serving, request, chunks, origin, connected>>

\* a producer task that keeps draining the handle whether or not anyone reads
Consuming_detached(r) == pc[r] \in {"streaming", "cancelled"}

\* the response asks the generator for its next chunk only while it is being sent
Consuming(r) == pc[r] = "streaming"

\* lines 49-51: one step of `async for output in promise: yield ...`
stream_results(r) ==
    /\ Consuming(r)
    /\ LET h == MyPromise(r)
           n == handles[h].read
       IN  IF n < Len(handles[h].out)
           THEN /\ chunks' = [chunks EXCEPT ![r] = Append(@, Frame(handles[h].out[n + 1]))]
                /\ origin' = [origin EXCEPT ![r] = Append(@, <<h, n + 1>>)]
                /\ handles' = [handles EXCEPT ![h].read = n + 1]
                /\ UNCHANGED <<pc, response>>
           ELSE /\ handles[h].state # "running"
                /\ IF handles[h].state = "done"
                   THEN /\ response' = [response EXCEPT ![r].complete = TRUE]
                        /\ pc' = [pc EXCEPT ![r] = "done"]
                   ELSE /\ pc' = [pc EXCEPT ![r] = "raised"]
                        /\ UNCHANGED response
                /\ UNCHANGED <<chunks, origin, handles>>
    /\ UNCHANGED <<env, executor, engines, serving, request, promise, connected>>

\* the client goes away while its stream is being sent
Disconnect(r) ==
    /\ pc[r] = "streaming"
    /\ connected[r]
    /\ connected' = [connected EXCEPT ![r] = FALSE]
    /\ UNCHANGED <<env, executor, engines, serving, request, pc, promise, handles,
                   response, chunks, origin>>

\* StreamingResponse sees the disconnect and cancels the sending task
listen_for_disconnect(r) ==
    /\ pc[r] = "streaming"
    /\ ~connected[r]
    /\ pc' = [pc EXCEPT ![r] = "cancelled"]
    /\ UNCHANGED <<env, executor, engines, serving, request, promise, handles,
                   response, chunks, origin, connected>>

\* promise.await_completion() called without await
Completed_noawait(h) == TRUE

\* await promise.await_completion() lets the handler go on
Completed(h) == handles[h].state # "running"

\* lines 57-58: await promise.await_completion(); return JSONResponse({"text": promise.text})
generate_return(r) ==
    /\ pc[r] = "await_completion"
    /\ request[r].path = "/generate"
    /\ LET h == MyPromise(r)
       IN  /\ Completed(h)
           /\ IF handles[h].state = "failed"
              THEN /\ Raise(r)
                   /\ UNCHANGED origin
              ELSE /\ Return(r, JSONResponse([text |-> HandleText(h)]))
                   /\ origin' = [origin EXCEPT ![r] = AllOf(h)]
    /\ UNCHANGED <<env, executor, engines, serving, request, promise, handles,
                   chunks, connected>>

----------------------------------------------------------------------------
(* POST /v1/chat/completions *)

\* the streaming flag popped but never tested
Rejected_never(request_dict) == FALSE

\* lines 83-84: streaming = request_dict.pop("streaming", False); if streaming:
Rejected(request_dict) == Truthy(pop(request_dict, "streaming", FALSE))

\* `else:` in place of the second `if`: every non-user message is taken as the assistant's
AppendMessage_else(chat_prompt, message) ==
    IF message.role = "user"
    THEN chat_prompt \o "[INST] " \o message.content \o " [/INST] "
    ELSE chat_prompt \o message.content \o " </s> "

\* lines 90-93: the body of the loop over messages
AppendMessage(chat_prompt, message) ==
    LET afterUser ==
            IF message.role = "user"
            THEN chat_prompt \o "[INST] " \o message.content \o " [/INST] "
            ELSE chat_prompt
    IN  IF message.role = "assistant"
        THEN afterUser \o message.content \o " </s> "
        ELSE afterUser

RECURSIVE ForMessages(_, _)
\* line 89: for message in request_dict['messages']
ForMessages(messages, chat_prompt) ==
    IF messages = <<>> THEN chat_prompt
    ELSE ForMessages(Tail(messages), AppendMessage(chat_prompt, Head(messages)))

\* lines 87-93
ChatPrompt(messages) == ForMessages(messages, "<s> ")

\* lines 81-100: reject streaming, build the prompt, start the generation
chat_completion(r) ==
    /\ pc[r] = "handler"
    /\ request[r].path = "/v1/chat/completions"
    /\ LET request_dict == request[r].body
       IN  IF executor = None
           THEN /\ Raise(r)
                /\ UNCHANGED <<promise, handles>>
           ELSE IF Rejected(request_dict)
           THEN /\ Return(r, JSONResponse([error |-> "streaming is not yet supported!"]))
                /\ UNCHANGED <<promise, handles>>
           ELSE IF "messages" \notin DOMAIN request_dict
                   \/ "max_tokens" \notin DOMAIN request_dict
           THEN /\ Raise(r)
                /\ UNCHANGED <<promise, handles>>
           ELSE \/ /\ Raise(r)      \* generate_async raises
                   /\ UNCHANGED <<promise, handles>>
                \/ /\ handles' = Append(handles,
                          generate_async(r, ChatPrompt(request_dict.messages),
                                         request_dict.max_tokens, FALSE, {}))
                   /\ promise' = [promise EXCEPT ![r] = Len(handles) + 1]
                   /\ pc' = [pc EXCEPT ![r] = "await_completion"]
                   /\ UNCHANGED response
    /\ UNCHANGED <<env, executor, engines, serving, request, chunks, origin, connected>>

\* lines 105-122: await promise.await_completion(); return the chat.completion object
chat_completion_return(r) ==
    /\ pc[r] = "await_completion"
    /\ request[r].path = "/v1/chat/completions"
    /\ LET h == MyPromise(r)
       IN  /\ Completed(h)
           /\ IF handles[h].state = "failed"
              THEN /\ Raise(r)
                   /\ UNCHANGED origin
              ELSE /\ Return(r, JSONResponse(
                          [object |-> "chat.completion",
                           choices |-> <<[finish_reason |-> "stop", index |-> 0,
                                          message |-> [content |-> HandleText(h),
                                                       role |-> "assistant"]]>>,
                           id |-> "xd", created |-> "time.time()", model |-> "default",
                           usage |-> [completion_tokens |-> 18, prompt_tokens |-> 14,
                                      total_tokens |-> 32]]))
                   /\ origin' = [origin EXCEPT ![r] = AllOf(h)]
    /\ UNCHANGED <<env, executor, engines, serving, request, promise, handles,
                   chunks, connected>>

----------------------------------------------------------------------------
(* Specifications *)

Next ==
    \/ main
    \/ \E r \in Clients :
         \/ Receive(r)
         \/ stats(r)
         \/ health(r)
         \/ show_available_models(r)
         \/ generate(r)
         \/ stream_results(r)
         \/ Disconnect(r)
         \/ listen_for_disconnect(r)
         \/ generate_return(r)
         \/ chat_completion(r)
         \/ chat_completion_return(r)
    \/ \E h \in Clients :      \* a client sends one request, so it owns at most one handle
         \/ EngineEmit(h)
         \/ EngineFinish(h)
         \/ EngineFail(h)

\* concurrent clients against a small engine
Spec == Init /\ [][Next]_vars

\* one client, every fragment text over Chars
SpecFraming == InitFraming /\ [][Next]_vars

\* one client, every conversation over Messages
SpecChat == InitChat /\ [][Next]_vars

\* one client whose disconnect the response is sure to be told of: the event loop
\* runs the task that waits for the disconnect message once the message is there
SpecDisconnect ==
    /\ InitDisconnect
    /\ [][Next]_vars
    /\ \A r \in Clients : WF_vars(listen_for_disconnect(r))

----------------------------------------------------------------------------
(* Properties *)

Finished(r) == pc[r] \in {"done", "raised", "cancelled"}
IsGenerate(r) == request[r].path = "/generate"
IsChat(r) == request[r].path = "/v1/chat/completions"
WantsStream(r) == Truthy(pop(request[r].body, "streaming", FALSE))
Range(f) == {f[i] : i \in DOMAIN f}

\* C1: a streaming /generate response is one chunk per fragment pulled, in generation
\* order; every chunk is a JSON string literal closed by its single NUL, and a client
\* that splits the body on NUL and JSON-decodes the pieces gets back exactly the
\* fragments: all of them once the stream has ended.
StreamReproducesFragments ==
    \A r \in Clients :
        response[r].kind = "stream" =>
            LET out == handles[promise[r]].out
                k == Len(chunks[r])
            IN  /\ k <= Len(out)
                /\ \A i \in 1..k :
                     LET c == chunks[r][i]
                     IN  /\ c[Len(c)] = NUL
                         /\ NUL \notin Range(SubSeq(c, 1, Len(c) - 1))
                         /\ loads(SubSeq(c, 1, Len(c) - 1)) = out[i]
                /\ ClientDecode(Flatten(chunks[r])) = SubSeq(out, 1, k)
                /\ response[r].complete =>
                     /\ k = Len(out)
                     /\ handles[promise[r]].state = "done"

\* C1 witness: a stream that ended after two fragments, one of them holding a NUL
StreamOfTwoWithNul ==
    \E r \in Clients :
        /\ response[r].kind = "stream"
        /\ response[r].complete
        /\ Len(chunks[r]) = 2
        /\ NUL \in Range(handles[promise[r]].out[1])
        /\ handles[promise[r]].out[2] # handles[promise[r]].out[1]

\* C2: a non-streaming /generate request gets nothing back while its generation runs,
\* and the text of its one JSON response is the fragments of its handle, concatenated
\* in order.
TextIsWholeGeneration ==
    \A r \in Clients :
        (IsGenerate(r) /\ ~WantsStream(r)) =>
            /\ (promise[r] # None /\ handles[promise[r]].state = "running")
                    => response[r] = NoResponse
            /\ response[r].status = 200 =>
                    /\ handles[promise[r]].state = "done"
                    /\ response[r] = JSONResponse([text |-> Flatten(handles[promise[r]].out)])

\* C2 witness: a non-streaming response whose text is made of two different fragments
TextOfTwoFragments ==
    \E r \in Clients :
        /\ IsGenerate(r) /\ ~WantsStream(r)
        /\ response[r].status = 200
        /\ Len(handles[promise[r]].out) = 2
        /\ handles[promise[r]].out[1] # handles[promise[r]].out[2]
        /\ handles[promise[r]].out[1] # <<>>

\* C3: a /generate body without `prompt` or without `max_new_tokens` is answered
\* with a client error (4xx).
BadRequestIsClientError ==
    \A r \in Clients :
        (/\ IsGenerate(r)
         /\ Finished(r)
         /\ \/ "prompt" \notin DOMAIN request[r].body
            \/ "max_new_tokens" \notin DOMAIN request[r].body)
            => response[r].status \in 400..499

WellFormed(r) ==
    \/ IsGenerate(r) /\ {"prompt", "max_new_tokens"} \subseteq DOMAIN request[r].body
    \/ IsChat(r) /\ ~WantsStream(r) /\ {"messages", "max_tokens"} \subseteq DOMAIN request[r].body

\* C4: a request during which the engine raised (at generate_async, while a fragment
\* was pulled, or while completion was awaited) ends with a 5xx JSON error response,
\* and the server goes on serving.
EngineErrorIsServerErrorJson ==
    \A r \in Clients :
        (WellFormed(r) /\ pc[r] = "raised") =>
            /\ response[r].status \in 500..599
            /\ response[r].kind = "json"
            /\ serving

\* the claim's own description of the prompt, message by message
Rendered(message) ==
    CASE message.role = "user" -> "[INST] " \o message.content \o " [/INST] "
      [] message.role = "assistant" -> message.content \o " </s> "
      [] OTHER -> ""

RECURSIVE Joined(_)
Joined(messages) ==
    IF messages = <<>> THEN "" ELSE Rendered(Head(messages)) \o Joined(Tail(messages))

HiHello == <<[role |-> "user", content |-> "Hi"], [role |-> "assistant", content |-> "Hello"]>>

StreamingChatRejected ==
    \A r \in Clients :
        (IsChat(r) /\ WantsStream(r)) =>
            /\ promise[r] = None
            /\ \A h \in HandleIds : handles[h].by # r
            /\ Finished(r) =>
                 response[r] = [status |-> 200, kind |-> "json",
                                json |-> [error |-> "streaming is not yet supported!"]]

\* C6 witness: the rejection of a body that holds nothing but streaming=true
BareStreamingChatRejected ==
    \E r \in Clients :
        /\ IsChat(r)
        /\ request[r].body = [streaming |-> TRUE]
        /\ pc[r] = "done"

SamplingPairs(body) ==
    {<<k, body[k]>> : k \in DOMAIN body \ {"prompt", "max_new_tokens", "streaming"}}

\* C7: the sampling parameters the engine call carries are exactly the fields of the
\* /generate body other than prompt, max_new_tokens and streaming.
SamplingPassedThrough ==
    \A h \in HandleIds :
        IsGenerate(handles[h].by) =>
            handles[h].sampling = SamplingPairs(request[handles[h].by].body)

\* C8: there is never more than one engine; it exists before any request is taken,
\* and `executor` names that same engine in every state the handlers can reach.
OneEngine ==
    /\ Cardinality(engines) <= 1
    /\ ~serving => (executor = None /\ engines = {})
    /\ serving => (executor = 1 /\ engines = {1})
    /\ \A r \in Clients : pc[r] # "idle" => serving

\* C8 witness: every handler has run to its end against the one engine
AllHandlersServed ==
    /\ executor = 1
    /\ \A r \in Clients : Finished(r)
    /\ \E r \in Clients : request[r].path = "/health"
    /\ \E r \in Clients : promise[r] # None

\* C9: once the client of a stream has gone, the response comes to see it, and from
\* then on the producer is stopped for good: no further fragment is pulled from the
\* request's handle and no further chunk is written.
NoPullAfterDisconnect ==
    /\ \A r \in Clients :
         (pc[r] = "streaming" /\ ~connected[r]) ~> (pc[r] # "streaming")
    /\ [][\A r \in Clients :
            pc[r] = "cancelled" =>
                /\ pc'[r] = "cancelled"
                /\ handles'[promise[r]].read = handles[promise[r]].read
                /\ chunks'[r] = chunks[r]
                /\ origin'[r] = origin[r]]_vars

\* C9 witness: a cancelled stream with one chunk written and a fragment left unpulled
CancelledWithFragmentLeft ==
    \E r \in Clients :
        /\ pc[r] = "cancelled"
        /\ Len(chunks[r]) = 1
        /\ handles[promise[r]].read = 1
        /\ Len(handles[promise[r]].out) = 2

OwnHandles(r) == {h \in HandleIds : handles[h].by = r}

\* C10: a request that reaches the engine has exactly one handle, no other request
\* has it, and everything in the request's response (streamed chunks or final text)
\* comes from that handle, in its generation order.
HandlesArePrivate ==
    \A r \in Clients :
        /\ Cardinality(OwnHandles(r)) <= 1
        /\ (pc[r] \in {"streaming", "await_completion"} \/ origin[r] # <<>>)
                => OwnHandles(r) = {promise[r]}
        /\ \A q \in Clients \ {r} : promise[r] # None => promise[q] # promise[r]
        /\ origin[r] = [i \in 1..Len(origin[r]) |-> <<promise[r], i>>]
        /\ \A i \in 1..Len(chunks[r]) :
             chunks[r][i] = Frame(handles[promise[r]].out[i])
        /\ (response[r].status = 200 /\ origin[r] # <<>> /\ response[r].kind = "json") =>
             /\ Len(origin[r]) = Len(handles[promise[r]].out)
             /\ IsGenerate(r) => response[r].json.text = Flatten(handles[promise[r]].out)
             /\ IsChat(r) => response[r].json.choices[1].message.content
                                = Flatten(handles[promise[r]].out)

\* C10 witness: a stream and a final text, both delivered, from two different handles
TwoClientsServed ==
    \E r, q \in Clients :
        /\ r # q
        /\ pc[r] = "done" /\ response[r].kind = "stream" /\ Len(chunks[r]) = 1
        /\ pc[q] = "done" /\ response[q].kind = "json" /\ Len(origin[q]) = 2
        /\ promise[r] > promise[q]

====
